---- MODULE Spec2Model ----
(***************************************************************************)
(* Billing and inventory ledger of the clinic management application:      *)
(* purchase orders, stock receipt, returns, replacements, supplier         *)
(* refunds and credit notes, invoices with their lines, payments and       *)
(* refunds.  Rows are records, a table is a sequence indexed by primary    *)
(* key (tables whose rows are never deleted) or a set of records carrying  *)
(* their pk (tables with deletion).  Money is an integer number of paise   *)
(* (the DecimalField values have two decimal places), a null foreign key   *)
(* is NoRow.                                                               *)
(***************************************************************************)
EXTENDS Integers, Sequences, FiniteSets, TLC

\* ------------------------------------------------------------------ bounds
\* most rows each table may hold, most forms one receive submission may hold
MaxStock == 2
MaxLines == 2
MaxPays == 1
MaxReturns == 2
MaxRefunds == 2
MaxRepl == 1
MaxApps == 2
MaxInvoices == 1
MaxItems == 2
MaxIPays == 2
MaxIRefunds == 1
\* most rows the purchase tables may hold altogether, and the invoice tables
MaxRows == 6
MaxInvRows == 4
\* most invoices the numbering is followed over, and most days
MaxNumbered == 3
MaxDay == 3

\* null=True foreign keys hold NoRow
NoRow == 0

\* str(seq).zfill(4)
NumberWidth == 4

\* ------------------------------------------------------- catalog (fixed rows)
Suppliers == {1, 2}
POs == {1, 2}
PoSupplier == <<1, 2>>
POItems == {1, 2, 3}
PoOf == <<1, 1, 2>>
\* values the forms are given
BaseCosts == {2}
DiscPcts == {0, 100}
GstPcts == {0}
Mrps == {1, 2}
DiscAmts == {0, 1}
\* ProductVariant.price of each purchase order item's variant, paise
VariantPrice == <<2, 2, 2>>
\* Product.requires_expiry_tracking of each purchase order item's product
RequiresExpiry == <<TRUE, FALSE, FALSE>>
RecvQtys == {1, 2}
RecvAllQtys == {1, 2, 3}
OrdQtys == {1, 2}
RetQtys == {0, 1, 2}
ReplQtys == {1, 2}
Amounts == {0, 1, 2, 3, 4}
\* amount_to_apply is parsed from the raw POST string, so it may carry a third
\* decimal place: these are amounts in half paise (0.005)
ApplyHalfPaise == {0, 1, 2, 3, 4, 8}
\* amounts of two decimal places, in paise
ApplyPaise == {0, 1, 2, 3}
EditQtys == {1, 2}      \* StockItemForm.quantity as posted
EditCosts == {0, 2}     \* StockItemForm.cost_price as posted, paise
ItemQtys == {1, 2}
UnitPrices == {2}
LineDiscounts == {0}
InvDiscounts == {0, 1}

VARIABLES
  po_status,   \* PurchaseOrder.status, per purchase order
  poi_qty,     \* PurchaseOrderItem.quantity, per item
  poi_rec,     \* PurchaseOrderItem.quantity_received, per item
  stock,       \* StockItem rows
  spay,        \* SupplierPayment rows
  returns,     \* PurchaseReturn rows
  repl,        \* ReplacementItem rows
  srefunds,    \* SupplierRefund rows
  credits,     \* SupplierCredit rows
  capps,       \* CreditApplication rows
  txns,        \* StockItemTransaction rows
  invoices,    \* Invoice rows (deleted rows keep their pk)
  iitems,      \* InvoiceItem rows (deleted rows keep their pk)
  ipay,        \* InvoicePayment rows
  irefunds,    \* Refund rows
  trav,        \* locals of a running PurchaseOrder._get_all_related_returns()
  applying,    \* locals of the running apply_supplier_credit_view requests
  invoice_number,  \* Invoice.invoice_number, per invoice
  today,       \* the day timezone.now() falls on
  creating     \* locals of the running Invoice.save() calls that insert a row

invoicing == <<invoices, iitems, ipay, irefunds>>

numbering == <<invoice_number, today, creating>>

vars == <<po_status, poi_qty, poi_rec, stock, spay, returns, repl, srefunds,
          credits, capps, txns, invoicing, trav, applying, numbering>>

\* ----------------------------------------------------------------- helpers
RECURSIVE SumF(_, _)
SumF(f, S) ==
  IF S = {} THEN 0
  ELSE LET x == CHOOSE y \in S : TRUE IN f[x] + SumF(f, S \ {x})

RECURSIVE SortedSeq(_)
SortedSeq(S) ==
  IF S = {} THEN <<>>
  ELSE LET m == CHOOSE y \in S : \A z \in S : y <= z
       IN <<m>> \o SortedSeq(S \ {m})

\* Decimal.quantize(Decimal('0.01')) of num/den paise, ROUND_HALF_EVEN, num >= 0
Quantize(num, den) ==
  LET q == num \div den
      r == num % den
  IN IF 2 * r > den \/ (2 * r = den /\ q % 2 = 1) THEN q + 1 ELSE q

\* rows written so far to the purchase tables, and to the invoice tables
Rows == Len(stock) + Len(spay) + Len(returns) + Len(repl) + Len(srefunds)
        + Len(capps)

InvRows == Len(invoices) + Len(iitems) + Len(ipay) + Len(irefunds)

\* ------------------------------------------------------ PurchaseOrderItem
quantity_remaining(qty, rec, i) == qty[i] - rec[i]

ItemsOf(po) == {i \in POItems : PoOf[i] = po}

\* --------------------------------------------------------------- StockItem
quantity_sold_counting_lines(tx, s) ==
  Cardinality({t \in tx : t.stock_item = s})

quantity_sold(tx, s) ==
  SumF([t \in tx |-> t.quantity], {t \in tx : t.stock_item = s})

quantity_returned(rets, s) ==
  SumF([k \in DOMAIN rets |-> rets[k].quantity],
       {k \in DOMAIN rets : rets[k].stock_item = s})

quantity_available(stk, tx, rets, s) ==
  stk[s].quantity - quantity_sold(tx, s) - quantity_returned(rets, s)

\* ---------------------------------------------------------- PurchaseOrder
update_status(qty, rec, po) ==
  IF ItemsOf(po) = {} THEN "PENDING"
  ELSE LET total_ord == SumF(qty, ItemsOf(po))
           total_rec == SumF(rec, ItemsOf(po))
       IN IF total_rec = 0 THEN "PENDING"
          ELSE IF total_rec < total_ord THEN "PARTIALLY_RECEIVED"
          ELSE "COMPLETED"

\* batches a ReplacementItem created for a return of one of the batches S
ReplacementBatches(stk, S) ==
  {k \in DOMAIN stk :
     \E j \in DOMAIN repl : /\ repl[j].created_stock_item = k
                            /\ returns[repl[j].purchase_return].stock_item \in S}

RECURSIVE ChainStock(_, _)
ChainStock(stk, S) ==
  IF ReplacementBatches(stk, S) \subseteq S THEN S
  ELSE ChainStock(stk, S \cup ReplacementBatches(stk, S))

DirectBatches(stk, po) ==
  {k \in DOMAIN stk : stk[k].poi # NoRow /\ PoOf[stk[k].poi] = po}

grand_total_over_chain(stk, po) ==
  SumF([k \in DOMAIN stk |-> stk[k].quantity * stk[k].cost_price],
       ChainStock(stk, DirectBatches(stk, po)))

grand_total(stk, po) ==
  SumF([k \in DOMAIN stk |-> stk[k].quantity * stk[k].cost_price],
       {k \in DOMAIN stk : stk[k].poi # NoRow /\ PoOf[stk[k].poi] = po})

amount_paid(pays, po) ==
  SumF([k \in DOMAIN pays |-> pays[k].amount],
       {k \in DOMAIN pays : pays[k].po = po})

amount_credited(apps, po) ==
  SumF([k \in DOMAIN apps |-> apps[k].amount_applied],
       {k \in DOMAIN apps : apps[k].applied_to_po = po})

balance_due_before_credits(stk, pays, apps, po) ==
  grand_total(stk, po) - amount_paid(pays, po)

balance_due(stk, pays, apps, po) ==
  grand_total(stk, po) - amount_paid(pays, po) - amount_credited(apps, po)

\* ---------------------------------------------------------- PurchaseReturn
total_value(stk, rets, r) ==
  rets[r].quantity * stk[rets[r].stock_item].cost_price

quantity_replaced(reps, r) ==
  SumF([k \in DOMAIN reps |-> reps[k].quantity],
       {k \in DOMAIN reps : reps[k].purchase_return = r})

amount_refunded(refs, r) ==
  SumF([k \in DOMAIN refs |-> refs[k].amount],
       {k \in DOMAIN refs : refs[k].purchase_return = r})

value_of_items_replaced(stk, rets, reps, r) ==
  quantity_replaced(reps, r) * stk[rets[r].stock_item].cost_price

value_pending_action(stk, rets, reps, refs, r) ==
  LET pending_value == total_value(stk, rets, r)
                       - value_of_items_replaced(stk, rets, reps, r)
                       - amount_refunded(refs, r)
  IN IF pending_value > 0 THEN pending_value ELSE 0

quantity_pending_action(stk, rets, reps, refs, r) ==
  LET cost_price == stk[rets[r].stock_item].cost_price
  IN IF cost_price <= 0
     THEN rets[r].quantity - quantity_replaced(reps, r)
     ELSE value_pending_action(stk, rets, reps, refs, r) \div cost_price

return_update_status_inverted(stk, rets, reps, refs, r) ==
  IF value_pending_action(stk, rets, reps, refs, r) >= 1 THEN "FULLY_PROCESSED"
  ELSE IF quantity_replaced(reps, r) > 0 \/ amount_refunded(refs, r) > 0
  THEN "PARTIALLY_PROCESSED"
  ELSE "PENDING"

return_update_status_below_zero(stk, rets, reps, refs, r) ==
  IF value_pending_action(stk, rets, reps, refs, r) < 0 THEN "FULLY_PROCESSED"
  ELSE IF quantity_replaced(reps, r) > 0 \/ amount_refunded(refs, r) > 0
  THEN "PARTIALLY_PROCESSED"
  ELSE "PENDING"

\* PurchaseReturn.update_status: Decimal('0.01') is one paise
return_update_status(stk, rets, reps, refs, r) ==
  IF value_pending_action(stk, rets, reps, refs, r) < 1 THEN "FULLY_PROCESSED"
  ELSE IF quantity_replaced(reps, r) > 0 \/ amount_refunded(refs, r) > 0
  THEN "PARTIALLY_PROCESSED"
  ELSE "PENDING"

\* ------------------------------------------------------------ receive stock
\* disc is the stored discount_percentage in hundredths of a percent
FinalCost(base, disc, gst) ==
  Quantize(base * (10000 - disc) * (100 + gst), 1000000)

\* the view's final_discount_percentage, in hundredths of a percent: the
\* percentage as entered, else the discount amount per unit over the base
\* cost, quantized to two places
final_discount_percentage(ln) ==
  IF ~ln.disc_blank THEN ln.disc * 100
  ELSE IF ln.base > 0 THEN Quantize(ln.disc_amt * 10000, ln.qty * ln.base)
  ELSE 0

\* cleaned_data.get('mrp') or 0
StoredMrp(ln) == IF ln.mrp_blank THEN 0 ELSE ln.mrp

items_to_receive(po) ==
  SortedSeq({i \in ItemsOf(po) : poi_rec[i] < poi_qty[i]})

\* get_form_kwargs: form k is validated against items_to_receive[k], if any
FormItem(po, k) ==
  IF k <= Len(items_to_receive(po)) THEN items_to_receive(po)[k] ELSE NoRow

\* ReceiveStockForm.clean for form k (a blank quantity skips every check, a
\* form beyond the listed items has no item to be checked against)
ReceiveFormValid(po, k, ln) ==
  \/ ln.qty = 0
  \/ LET \* a blank MRP falls back to the variant's price; 0 stands for None too
         mrp == IF ~ln.mrp_blank THEN ln.mrp
                ELSE IF FormItem(po, k) # NoRow THEN VariantPrice[FormItem(po, k)]
                ELSE 0
     IN
     /\ (FormItem(po, k) # NoRow /\ RequiresExpiry[FormItem(po, k)]) => ln.expiry
     /\ ln.base > 0
     /\ ln.batch
     /\ mrp # 0 => ln.base <= mrp
     /\ ~(~ln.disc_blank /\ ln.disc > 0 /\ ln.disc_amt > 0)
     /\ ln.disc_amt <= ln.base * ln.qty
     \* final_cost > mrp, with the discount percentage not yet rounded
     /\ mrp # 0 =>
          IF ~ln.disc_blank
          THEN ln.base * (100 - ln.disc) * (100 + ln.gst) <= mrp * 10000
          ELSE (ln.base * ln.qty - ln.disc_amt) * (100 + ln.gst)
                 <= mrp * 100 * ln.qty
     /\ FormItem(po, k) # NoRow
          => ln.qty <= quantity_remaining(poi_qty, poi_rec, FormItem(po, k))

RECURSIVE ProcessLines(_, _, _, _)
ProcessLines(po, lines, k, st) ==
  IF k > Len(lines) THEN st
  ELSE
    LET ln == lines[k] IN
    IF ln.qty = 0 THEN ProcessLines(po, lines, k + 1, st)
    ELSE
      LET po_item == ln.poi_id
          row == [supplier |-> PoSupplier[po], poi |-> po_item,
                  quantity |-> ln.qty,
                  mrp |-> StoredMrp(ln),
                  base_cost_price |-> ln.base,
                  discount_percentage |-> final_discount_percentage(ln),
                  cost_price |-> FinalCost(ln.base, final_discount_percentage(ln),
                                           ln.gst),
                  source |-> "PURCHASE_ORDER"]
          rec2 == [st.rec EXCEPT ![po_item] = @ + ln.qty]
          \* post_save of PurchaseOrderItem: its own order's update_status()
          status2 == [st.status EXCEPT
                        ![PoOf[po_item]] = update_status(poi_qty, rec2, PoOf[po_item])]
      IN ProcessLines(po, lines, k + 1,
                      [stock |-> Append(st.stock, row), rec |-> rec2,
                       status |-> status2])

NonBlank(lines) == Cardinality({k \in DOMAIN lines : lines[k].qty > 0})

ReceiveStock_skipping_invalid(po, lines) ==
  LET kept == [k \in DOMAIN lines |->
                 IF ReceiveFormValid(po, k, lines[k]) THEN lines[k]
                 ELSE [lines[k] EXCEPT !.qty = 0]]
      st == ProcessLines(po, kept, 1,
              [stock |-> stock, rec |-> poi_rec, status |-> po_status])
  IN /\ trav.pc = "idle"
     /\ Len(items_to_receive(po)) > 0
     /\ Len(stock) + NonBlank(lines) <= MaxStock
     /\ Rows + NonBlank(lines) <= MaxRows
     /\ stock' = st.stock
     /\ poi_rec' = st.rec
     /\ po_status' = [st.status EXCEPT ![po] = update_status(poi_qty, st.rec, po)]
     /\ UNCHANGED <<poi_qty, spay, returns, repl, srefunds, credits, capps,
                  txns, invoicing, trav, applying, numbering>>

ReceiveStock_without_counter(po, lines) ==
  /\ trav.pc = "idle"
  /\ Len(items_to_receive(po)) > 0
  /\ Len(stock) + NonBlank(lines) <= MaxStock
  /\ Rows + NonBlank(lines) <= MaxRows
  /\ IF \A k \in DOMAIN lines : ReceiveFormValid(po, k, lines[k])
     THEN stock' = ProcessLines(po, lines, 1,
                     [stock |-> stock, rec |-> poi_rec,
                      status |-> po_status]).stock
     ELSE UNCHANGED stock
  /\ UNCHANGED <<poi_rec, po_status, poi_qty, spay, returns, repl, srefunds,
                 credits, capps, txns, invoicing, trav, applying, numbering>>

\* formset.is_valid() before the loop, the whole view in one transaction
ReceiveStock(po, lines) ==
  /\ trav.pc = "idle"
  /\ Len(items_to_receive(po)) > 0
  /\ Len(stock) + NonBlank(lines) <= MaxStock
  /\ Rows + NonBlank(lines) <= MaxRows
  /\ IF \A k \in DOMAIN lines : ReceiveFormValid(po, k, lines[k])
     THEN LET st == ProcessLines(po, lines, 1,
                      [stock |-> stock, rec |-> poi_rec, status |-> po_status])
          IN /\ stock' = st.stock
             /\ poi_rec' = st.rec
             /\ po_status' = [st.status EXCEPT
                                ![po] = update_status(poi_qty, st.rec, po)]
     ELSE UNCHANGED <<stock, poi_rec, po_status>>
  /\ UNCHANGED <<poi_qty, spay, returns, repl, srefunds, credits, capps,
                  txns, invoicing, trav, applying, numbering>>

\* a submission of up to MaxLines forms; the hidden purchase_order_item_id of a
\* form is whatever the client sends
receive_purchase_order_view ==
  \E po \in POs : \E n \in 1..MaxLines :
    \E lines \in [1..n -> [poi_id : POItems, qty : RecvQtys,
                           base : BaseCosts, disc : {0}, gst : GstPcts,
                           mrp : {2}, disc_amt : {0}, batch : {TRUE},
                           expiry : {TRUE}, mrp_blank : {FALSE},
                           disc_blank : {FALSE}]] :
      ReceiveStock(po, lines)

\* the page's own submission of one form: the hidden id is the listed item's
ReceiveListed(pos, discs) ==
  \E po \in pos : \E q \in RecvQtys : \E b \in BaseCosts :
    \E d \in discs : \E g \in GstPcts :
      /\ FormItem(po, 1) # NoRow
      /\ ReceiveStock(po, <<[poi_id |-> FormItem(po, 1), qty |-> q,
                             base |-> b, disc |-> d, gst |-> g,
                             mrp |-> 2, disc_amt |-> 0, batch |-> TRUE,
                             expiry |-> TRUE, mrp_blank |-> FALSE,
                             disc_blank |-> FALSE]>>)

receive_listed_item == ReceiveListed(POs, DiscPcts)

\* the same submission for the first order, with no discount on the batch
receive_undiscounted_item == ReceiveListed({1}, {0})

\* what one filled-in form of the receive page may carry: any quantity, and at
\* most one of a missing batch number, a missing expiry date, an MRP below the
\* cost, a discount amount on top of a percentage discount
ReceiveFields ==
  {f \in [qty : RecvAllQtys, mrp : Mrps, disc_amt : DiscAmts,
          disc : DiscPcts, batch : BOOLEAN, expiry : BOOLEAN] :
     /\ f.disc_amt > 0 => f.disc > 0
     /\ Cardinality({d \in {"batch", "expiry", "mrp", "disc_amt"} :
           \/ d = "batch" /\ ~f.batch
           \/ d = "expiry" /\ ~f.expiry
           \/ d = "mrp" /\ f.mrp < 2
           \/ d = "disc_amt" /\ f.disc_amt > 0}) <= 1}

\* the page's submission with every listed item filled in: one form per item
\* still to be received, each with a quantity, some of them not valid
receive_all_listed_items ==
  \E po \in POs :
    LET items == items_to_receive(po) IN
    /\ Len(items) > 0
    /\ Len(items) <= MaxLines
    /\ \E fields \in [DOMAIN items -> ReceiveFields] :
         ReceiveStock(po, [k \in DOMAIN items |->
                             [poi_id |-> items[k], qty |-> fields[k].qty,
                              base |-> 2, disc |-> fields[k].disc, gst |-> 0,
                              mrp |-> fields[k].mrp,
                              disc_amt |-> fields[k].disc_amt,
                              batch |-> fields[k].batch,
                              expiry |-> fields[k].expiry,
                              mrp_blank |-> FALSE, disc_blank |-> FALSE]])

\* the price fields of one form, in paise and whole percent: the MRP given,
\* zero or left blank, the discount as a percentage or as an amount
PricedFields ==
  {f \in [qty : {1}, base : {2, 3}, mrp : {0, 2, 3}, mrp_blank : BOOLEAN,
           disc : {0}, disc_blank : BOOLEAN, disc_amt : {0, 1},
           gst : {0, 50}] :
     f.mrp_blank => f.mrp = 0}

\* the page's submission of one form for the first listed item
receive_priced_item ==
  \E po \in POs : \E f \in PricedFields :
    /\ FormItem(po, 1) # NoRow
    /\ ReceiveStock(po, <<[poi_id |-> FormItem(po, 1), qty |-> f.qty,
                           base |-> f.base, disc |-> f.disc, gst |-> f.gst,
                           mrp |-> f.mrp, disc_amt |-> f.disc_amt,
                           batch |-> TRUE, expiry |-> TRUE,
                           mrp_blank |-> f.mrp_blank,
                           disc_blank |-> f.disc_blank]>>)

\* --------------------------------------------------- purchase order views
cancel_purchase_order_view ==
  \E po \in POs :
    /\ po_status[po] = "PENDING"
    /\ po_status' = [po_status EXCEPT ![po] = "CANCELLED"]
    /\ UNCHANGED <<poi_qty, poi_rec, stock, spay, returns, repl, srefunds,
                   credits, capps, txns, invoicing, trav, applying,
                  numbering>>

\* one item's ordered quantity edited; post_save runs update_status()
edit_purchase_order_view ==
  \E i \in POItems : \E q \in OrdQtys :
    /\ po_status[PoOf[i]] = "PENDING"
    /\ poi_qty' = [poi_qty EXCEPT ![i] = q]
    /\ po_status' = [po_status EXCEPT
                       ![PoOf[i]] = update_status(poi_qty', poi_rec, PoOf[i])]
    /\ UNCHANGED <<poi_rec, stock, spay, returns, repl, srefunds, credits,
                   capps, txns, invoicing, trav, applying,
                  numbering>>

\* SupplierPaymentForm.clean_amount, then SupplierPayment.save
add_supplier_payment_view ==
  \E po \in POs : \E amount \in Amounts :
    /\ Len(spay) < MaxPays
    /\ Rows < MaxRows
    /\ IF amount > 0 /\ amount <= balance_due(stock, spay, capps, po)
       THEN /\ spay' = Append(spay, [po |-> po, amount |-> amount])
            /\ po_status' = [po_status EXCEPT
                               ![po] = update_status(poi_qty, poi_rec, po)]
       ELSE UNCHANGED <<spay, po_status>>
    /\ UNCHANGED <<poi_qty, poi_rec, stock, returns, repl, srefunds, credits,
                   capps, txns, invoicing, trav, applying,
                  numbering>>

\* ------------------------------------------------------------ return views
\* UnifiedReturnForm.clean_quantity, then create_return_view
create_return_view ==
  \E s \in DOMAIN stock : \E q \in RetQtys :
    /\ trav.pc = "idle"
    /\ Len(returns) < MaxReturns
    /\ Rows < MaxRows
    /\ IF q = 0 \/ q <= quantity_available(stock, txns, returns, s)
       THEN returns' = Append(returns,
              [po |-> IF stock[s].poi # NoRow THEN PoOf[stock[s].poi] ELSE NoRow,
               stock_item |-> s, quantity |-> q, status |-> "PENDING"])
       ELSE UNCHANGED returns
    /\ UNCHANGED <<po_status, poi_qty, poi_rec, stock, spay, repl, srefunds,
                   credits, capps, txns, invoicing, trav, applying,
                  numbering>>

\* signals.create_credit_on_refund for the refund just saved as row `pk`
create_credit_on_refund(crs, stk, rets, pk, refund) ==
  LET supplier ==
        IF refund.po # NoRow /\ PoSupplier[refund.po] # NoRow
        THEN PoSupplier[refund.po]
        ELSE IF refund.purchase_return # NoRow
                /\ stk[rets[refund.purchase_return].stock_item].supplier # NoRow
        THEN stk[rets[refund.purchase_return].stock_item].supplier
        ELSE NoRow
  IN IF supplier # NoRow
     THEN Append(crs, [supplier |-> supplier, source_refund |-> pk,
                       initial_amount |-> refund.amount,
                       balance |-> refund.amount, is_fully_used |-> FALSE])
     ELSE crs

RefundAmountValid_NoMax(r, amount) == amount > 0

\* SupplierRefundForm.clean_amount / GeneralSupplierRefundForm.clean_amount
RefundAmountValid(r, amount) ==
  /\ amount > 0
  /\ amount <= value_pending_action(stock, returns, repl, srefunds, r)

\* SupplierRefund.save: the row, the post_save signal, then both update_status()
SaveSupplierRefund(refund) ==
  /\ srefunds' = Append(srefunds, refund)
  /\ credits' = create_credit_on_refund(credits, stock, returns,
                                        Len(srefunds) + 1, refund)
  /\ returns' = [returns EXCEPT ![refund.purchase_return].status =
                   return_update_status(stock, returns, repl, srefunds',
                                        refund.purchase_return)]
  /\ po_status' = IF refund.po # NoRow
                  THEN [po_status EXCEPT
                          ![refund.po] = update_status(poi_qty, poi_rec, refund.po)]
                  ELSE po_status

add_supplier_refund_view ==
  \E r \in DOMAIN returns : \E amount \in Amounts :
    /\ returns[r].po # NoRow
    /\ Len(srefunds) < MaxRefunds
    /\ Rows < MaxRows
    /\ IF value_pending_action(stock, returns, repl, srefunds, r) > 0
          /\ RefundAmountValid(r, amount)
       THEN SaveSupplierRefund([po |-> returns[r].po, purchase_return |-> r,
                                amount |-> amount])
       ELSE UNCHANGED <<srefunds, credits, returns, po_status>>
    /\ UNCHANGED <<poi_qty, poi_rec, stock, spay, repl, capps, txns, invoicing,
                   trav, applying, numbering>>

create_general_refund_view ==
  \E r \in DOMAIN returns : \E amount \in Amounts :
    /\ returns[r].po = NoRow
    /\ Len(srefunds) < MaxRefunds
    /\ Rows < MaxRows
    /\ IF RefundAmountValid(r, amount)
       THEN SaveSupplierRefund([po |-> NoRow, purchase_return |-> r,
                                amount |-> amount])
       ELSE UNCHANGED <<srefunds, credits, returns, po_status>>
    /\ UNCHANGED <<poi_qty, poi_rec, stock, spay, repl, capps, txns, invoicing,
                   trav, applying, numbering>>

\* ReplacementStockForm.clean_quantity
ReplacementQuantityValid(r, q) ==
  q <= quantity_pending_action(stock, returns, repl, srefunds, r)

\* ReplacementItem.save: the cloned batch, the row, then update_status()
SaveReplacementItem(r, q) ==
  LET original_stock == stock[returns[r].stock_item]
  IN /\ stock' = Append(stock, [supplier |-> original_stock.supplier,
                                poi |-> NoRow, quantity |-> q,
                                mrp |-> original_stock.mrp,
                                base_cost_price |-> original_stock.base_cost_price,
                                discount_percentage |->
                                  original_stock.discount_percentage,
                                cost_price |-> original_stock.cost_price,
                                source |-> "REPLACEMENT"])
     /\ repl' = Append(repl, [purchase_return |-> r, quantity |-> q,
                              created_stock_item |-> Len(stock) + 1])
     /\ returns' = [returns EXCEPT ![r].status =
                      return_update_status(stock', returns, repl', srefunds, r)]

\* receive_replacement_view while there are fewer than `most` replacements
\* and fewer than `batches` batches
ReceiveReplacement(most, batches) ==
  \E r \in DOMAIN returns : \E q \in ReplQtys :
    /\ trav.pc = "idle"
    /\ Len(repl) < most
    /\ Len(stock) < batches
    /\ Rows + 2 <= MaxRows
    /\ IF quantity_pending_action(stock, returns, repl, srefunds, r) > 0
          /\ ReplacementQuantityValid(r, q)
       THEN SaveReplacementItem(r, q)
       ELSE UNCHANGED <<stock, repl, returns>>
    /\ UNCHANGED <<po_status, poi_qty, poi_rec, spay, srefunds, credits,
                   capps, txns, invoicing, trav, applying,
                  numbering>>

receive_replacement_view == ReceiveReplacement(MaxRepl, MaxStock)

\* the same view followed for one replacement more
receive_further_replacement == ReceiveReplacement(MaxRepl + 1, MaxStock + 1)

\* ------------------------------------------------------------ credit notes
\* signals.update_credit_balance_on_application.  amount2 is the unrounded
\* amount_applied of the instance in memory, in half paise; the balance column
\* has two decimal places, so credit.save() stores the difference quantized
update_credit_balance_on_application(credit, amount2) ==
  LET balance2 == 2 * credit.balance - amount2
  IN [credit EXCEPT !.balance = Quantize(balance2, 2),
                    !.is_fully_used = IF balance2 <= 0 THEN TRUE ELSE @]

\* amount_to_apply = Decimal(request.POST['amount_to_apply']); the three checks
\* compare the unrounded amount, CreditApplication.objects.create stores it in
\* a column of two decimal places
apply_supplier_credit_view ==
  \E po \in POs : \E c \in DOMAIN credits : \E amount2 \in ApplyHalfPaise :
    /\ credits[c].supplier = PoSupplier[po]
    /\ Len(capps) < MaxApps
    /\ Rows < MaxRows
    /\ IF /\ amount2 > 0
          /\ amount2 <= 2 * credits[c].balance
          /\ amount2 <= 2 * balance_due(stock, spay, capps, po)
       THEN /\ capps' = Append(capps, [credit |-> c, applied_to_po |-> po,
                                       amount_applied |-> Quantize(amount2, 2)])
            /\ credits' = [credits EXCEPT
                 ![c] = update_credit_balance_on_application(credits[c], amount2)]
       ELSE UNCHANGED <<capps, credits>>
    /\ UNCHANGED <<po_status, poi_qty, poi_rec, stock, spay, returns, repl,
                   srefunds, txns, invoicing, trav, applying,
                  numbering>>

\* two requests of apply_supplier_credit_view served at the same time
Requests == {1, 2}

ApplyIdle == [pc |-> "idle", po |-> NoRow, credit_id |-> NoRow,
              amount_to_apply |-> 0, credit |-> <<>>]

InFlight == Cardinality({p \in Requests : applying[p].pc # "idle"})

\* the view up to its three checks: the credit row is read into the request's
\* memory and the amount, here of two decimal places, is compared with it
apply_supplier_credit_check(p) ==
  \E po \in POs : \E c \in DOMAIN credits : \E amount \in ApplyPaise :
    /\ applying[p].pc = "idle"
    /\ credits[c].supplier = PoSupplier[po]
    /\ Len(capps) + InFlight < MaxApps
    /\ Rows + InFlight < MaxRows
    /\ IF /\ amount > 0
          /\ amount <= credits[c].balance
          /\ amount <= balance_due(stock, spay, capps, po)
       THEN applying' = [applying EXCEPT ![p] =
              [pc |-> "checked", po |-> po, credit_id |-> c,
               amount_to_apply |-> amount, credit |-> credits[c]]]
       ELSE UNCHANGED applying
    /\ UNCHANGED <<po_status, poi_qty, poi_rec, stock, spay, returns, repl,
                   srefunds, credits, capps, txns, invoicing, trav,
                  numbering>>

\* CreditApplication.objects.create and its post_save signal: the signal takes
\* the amount off the balance of the credit object the view read and saves
\* that object, every column of it
apply_supplier_credit_create(p) ==
  LET my == applying[p] IN
  /\ my.pc = "checked"
  /\ capps' = Append(capps, [credit |-> my.credit_id, applied_to_po |-> my.po,
                             amount_applied |-> my.amount_to_apply])
  /\ credits' = [credits EXCEPT ![my.credit_id] =
       update_credit_balance_on_application(my.credit, 2 * my.amount_to_apply)]
  /\ applying' = [applying EXCEPT ![p] = ApplyIdle]
  /\ UNCHANGED <<po_status, poi_qty, poi_rec, stock, spay, returns, repl,
                 srefunds, txns, invoicing, trav, numbering>>

\* the store refuses the write of a request whose rows another request has
\* written since it read them, and the request's transaction is rolled back
apply_supplier_credit_abort(p) ==
  LET my == applying[p] IN
  /\ my.pc = "checked"
  /\ credits[my.credit_id] # my.credit
  /\ applying' = [applying EXCEPT ![p] = ApplyIdle]
  /\ UNCHANGED <<po_status, poi_qty, poi_rec, stock, spay, returns, repl,
                 srefunds, credits, capps, txns, invoicing, trav,
                  numbering>>

apply_credit_check == \E p \in Requests : apply_supplier_credit_check(p)

apply_credit_create == \E p \in Requests : apply_supplier_credit_create(p)

apply_credit_abort == \E p \in Requests : apply_supplier_credit_abort(p)

\* ------------------------------------------------------------- stock edit
\* StockItemForm: supplier and purchase_order_item may be changed or cleared
EditStockItem(s, sup, item, q, c) ==
  /\ stock[s].poi # NoRow
  /\ stock' = [stock EXCEPT ![s] = [@ EXCEPT !.supplier = sup, !.poi = item,
                                       !.quantity = q, !.cost_price = c]]
  /\ UNCHANGED <<po_status, poi_qty, poi_rec, spay, returns, repl, srefunds,
                 credits, capps, txns, invoicing, trav, applying,
                  numbering>>

\* the batch's supplier and order link each kept or cleared, quantity and cost
\* left as they are
edit_stock_item_links ==
  \E s \in DOMAIN stock : \E sup \in {stock[s].supplier, NoRow} :
    \E item \in {stock[s].poi, NoRow} :
      EditStockItem(s, sup, item, stock[s].quantity, stock[s].cost_price)

\* the whole form: quantity and cost_price are fields of StockItemForm too,
\* and form.save() writes whatever was posted for them
edit_stock_item_view ==
  \E s \in DOMAIN stock : \E sup \in {stock[s].supplier, NoRow} :
    \E item \in {stock[s].poi, NoRow} :
      \E q \in EditQtys : \E c \in EditCosts :
        EditStockItem(s, sup, item, q, c)

\* ------------------------------------------------------------------ Invoice
\* decimal digits of n, most significant first: str(seq)
RECURSIVE Digits(_)
Digits(n) == IF n < 10 THEN <<n>> ELSE Digits(n \div 10) \o <<n % 10>>

\* str.zfill(width)
RECURSIVE Zfill(_, _)
Zfill(ds, width) == IF Len(ds) >= width THEN ds ELSE Zfill(<<0>> \o ds, width)

\* int() of a string of digits
RECURSIVE ParseInt(_)
ParseInt(ds) ==
  IF ds = <<>> THEN 0
  ELSE 10 * ParseInt(SubSeq(ds, 1, Len(ds) - 1)) + ds[Len(ds)]

\* string comparison of two strings of digits, as order_by compares them
RECURSIVE StrLess(_, _)
StrLess(a, b) ==
  IF a = <<>> THEN b # <<>>
  ELSE IF b = <<>> THEN FALSE
  ELSE IF a[1] # b[1] THEN a[1] < b[1]
  ELSE StrLess(Tail(a), Tail(b))

\* an invoice_number 'INV-%y%m%d-NNNN' is its day and the digits after the
\* prefix; the number of a deleted row is gone with the row
NoNumber == [day |-> 0, digits |-> <<>>]

\* filter(invoice_number__startswith=prefix)
WithPrefix(nums, day) == {k \in DOMAIN nums : nums[k].day = day}

next_invoice_number_by_count(nums, day) ==
  [day |-> day,
   digits |-> Zfill(Digits(Cardinality(WithPrefix(nums, day)) + 1), NumberWidth)]

\* Invoice.save() for an instance without an invoice_number
next_invoice_number(nums, day) ==
  IF WithPrefix(nums, day) = {}
  THEN [day |-> day, digits |-> Zfill(Digits(1), NumberWidth)]
  ELSE LET last == CHOOSE k \in WithPrefix(nums, day) :
                     \A j \in WithPrefix(nums, day) :
                       j = k \/ StrLess(nums[j].digits, nums[k].digits)
                           \/ nums[j].digits = nums[k].digits
       IN [day |-> day,
           digits |-> Zfill(Digits(ParseInt(nums[last].digits) + 1), NumberWidth)]

SaveIdle == [pc |-> "idle", number |-> NoNumber]

\* timezone.now() moves on to the next day
next_day ==
  /\ today < MaxDay
  /\ today' = today + 1
  /\ UNCHANGED <<po_status, poi_qty, poi_rec, stock, spay, returns, repl,
                 srefunds, credits, capps, txns, invoicing, trav, applying,
                 invoice_number, creating>>

\* a deleted row: nothing is left of it but its primary key, never given again
DeletedInvoice == [status |-> "", total_amount |-> 0, discount |-> 0,
                   deleted |-> TRUE]

DeletedItem == [invoice |-> NoRow, stock_item |-> NoRow, quantity |-> 0,
                unit_price |-> 0, discount |-> 0, deleted |-> TRUE]

LiveItems(its, inv) ==
  {k \in DOMAIN its : ~its[k].deleted /\ its[k].invoice = inv}

calculate_total_amount(its, inv) ==
  SumF([k \in DOMAIN its |-> its[k].quantity * its[k].unit_price],
       LiveItems(its, inv))

\* Invoice.total_discount of the instance `row` with pk inv
invoice_total_discount(its, row, inv) ==
  SumF([k \in DOMAIN its |-> its[k].discount * its[k].quantity],
       LiveItems(its, inv)) + row.discount

net_amount(its, row, inv) ==
  row.total_amount - invoice_total_discount(its, row, inv)

invoice_amount_paid(pays, inv) ==
  SumF([k \in DOMAIN pays |-> pays[k].amount],
       {k \in DOMAIN pays : pays[k].invoice = inv})

total_refunded(refs, inv) ==
  SumF([k \in DOMAIN refs |-> refs[k].amount],
       {k \in DOMAIN refs : refs[k].invoice = inv})

invoice_balance_due(its, pays, refs, row, inv) ==
  net_amount(its, row, inv) - invoice_amount_paid(pays, inv)
  + total_refunded(refs, inv)

InvoiceSave_paid_below_zero(its, pays, refs, row, inv) ==
  LET self == [row EXCEPT !.total_amount = calculate_total_amount(its, inv)]
      paid == invoice_amount_paid(pays, inv)
      refunded == total_refunded(refs, inv)
      balance == net_amount(its, self, inv) - paid + refunded
  IN IF self.status # "CANCELLED"
     THEN [self EXCEPT !.status = IF balance < 0 THEN "PAID"
                                  ELSE IF paid > 0 THEN "PARTIAL"
                                  ELSE "PENDING"]
     ELSE self

InvoiceSave_cancelled_until_settled(its, pays, refs, row, inv) ==
  LET self == [row EXCEPT !.total_amount = calculate_total_amount(its, inv)]
      paid == invoice_amount_paid(pays, inv)
      refunded == total_refunded(refs, inv)
      balance == net_amount(its, self, inv) - paid + refunded
  IN IF self.status # "CANCELLED" \/ balance <= 0
     THEN [self EXCEPT !.status = IF balance <= 0 THEN "PAID"
                                  ELSE IF paid > 0 THEN "PARTIAL"
                                  ELSE "PENDING"]
     ELSE self

InvoiceSave_accumulating(its, pays, refs, row, inv) ==
  LET self == [row EXCEPT !.total_amount = @ + calculate_total_amount(its, inv)]
      paid == invoice_amount_paid(pays, inv)
      refunded == total_refunded(refs, inv)
      balance == net_amount(its, self, inv) - paid + refunded
  IN IF self.status # "CANCELLED"
     THEN [self EXCEPT !.status = IF balance <= 0 THEN "PAID"
                                  ELSE IF paid > 0 THEN "PARTIAL"
                                  ELSE "PENDING"]
     ELSE self

\* Invoice.save() of the instance `row` that already has pk inv
InvoiceSave(its, pays, refs, row, inv) ==
  LET self == [row EXCEPT !.total_amount = calculate_total_amount(its, inv)]
      paid == invoice_amount_paid(pays, inv)
      refunded == total_refunded(refs, inv)
      balance == net_amount(its, self, inv) - paid + refunded
  IN IF self.status # "CANCELLED"
     THEN [self EXCEPT !.status = IF balance <= 0 THEN "PAID"
                                  ELSE IF paid > 0 THEN "PARTIAL"
                                  ELSE "PENDING"]
     ELSE self

\* ------------------------------------------------- InvoiceItem stock signal
NoPrevious == [item |-> NoRow, stock_item |-> NoRow, quantity |-> 0]

\* a form of the formset that carries no line
NoLine == [stock_item |-> NoRow, quantity |-> 0, unit_price |-> 0, discount |-> 0]

\* StockItemTransaction.objects.update_or_create(invoice_item=pk, defaults=...)
update_or_create(tx, pk, s, q) ==
  IF \E t \in tx : t.invoice_item = pk
  THEN {IF t.invoice_item = pk THEN [t EXCEPT !.stock_item = s, !.quantity = q]
        ELSE t : t \in tx}
  ELSE tx \cup {[invoice_item |-> pk, stock_item |-> s, quantity |-> q]}

update_stock_keeping_stale(tx, pk, previous, instance, deleted) ==
  LET t2 == IF deleted /\ instance.stock_item # NoRow
            THEN {t \in tx : t.invoice_item # pk} ELSE tx
  IN IF ~deleted /\ instance.stock_item # NoRow
     THEN update_or_create(t2, pk, instance.stock_item, instance.quantity)
     ELSE t2

\* signals.update_stock_for_invoice_item for the instance with primary key pk
update_stock_for_invoice_item(tx, pk, previous, instance, deleted) ==
  LET t1 == IF /\ previous # NoPrevious
               /\ previous.stock_item # NoRow
               /\ \/ instance.stock_item = NoRow
                  \/ instance.stock_item # previous.stock_item
            THEN {t \in tx : t.invoice_item # pk} ELSE tx
      t2 == IF deleted /\ instance.stock_item # NoRow
            THEN {t \in t1 : t.invoice_item # pk} ELSE t1
  IN IF ~deleted /\ instance.stock_item # NoRow
     THEN update_or_create(t2, pk, instance.stock_item, instance.quantity)
     ELSE t2

\* InvoiceItemForm.product_variant queryset (the catalog has one variant): the
\* annotation LEFT JOINs batches, their transactions and their returns, and
\* each Sum runs over the joined rows
variant_stock_available(stk, tx, rets) ==
  LET fan(n) == IF n = 0 THEN 1 ELSE n
      nT(s) == fan(Cardinality({t \in tx : t.stock_item = s}))
      nR(s) == fan(Cardinality({k \in DOMAIN rets : rets[k].stock_item = s}))
      total_quantity ==
        SumF([s \in DOMAIN stk |-> stk[s].quantity * nT(s) * nR(s)], DOMAIN stk)
      total_sold ==
        SumF([s \in DOMAIN stk |-> quantity_sold(tx, s) * nR(s)], DOMAIN stk)
      total_returned ==
        SumF([s \in DOMAIN stk |-> quantity_returned(rets, s) * nT(s)], DOMAIN stk)
  IN total_quantity - total_sold - total_returned

\* InvoiceItemForm validation of one submitted line: the quantity validators,
\* and a batch can be chosen only through a variant the queryset still lists
InvoiceItemFormValid(ln) ==
  /\ ln.quantity >= 1
  /\ ln.stock_item # NoRow => variant_stock_available(stock, txns, returns) > 0

LineInputs ==
  [stock_item : DOMAIN stock \cup {NoRow}, quantity : ItemQtys,
   unit_price : UnitPrices, discount : LineDiscounts]

ItemRow(inv, ln) ==
  [invoice |-> inv, stock_item |-> ln.stock_item, quantity |-> ln.quantity,
   unit_price |-> ln.unit_price, discount |-> ln.discount, deleted |-> FALSE]

\* formset.save() of new lines: each item is inserted, then its post_save
\* receivers run (the invoice is saved again, the stock transaction is written)
RECURSIVE SaveNewLines(_, _, _, _)
SaveNewLines(inv, lines, k, st) ==
  IF k > Len(lines) THEN st
  ELSE
    LET its2 == Append(st.items, ItemRow(inv, lines[k]))
        pk == Len(its2)
    IN SaveNewLines(inv, lines, k + 1,
         [items |-> its2,
          row |-> InvoiceSave(its2, ipay, irefunds, st.row, inv),
          tx |-> update_stock_for_invoice_item(st.tx, pk, NoPrevious,
                                               lines[k], FALSE)])

\* create_invoice_view for at most `most` invoices: the invoice is saved, which
\* gives it its number, then its lines are
CreateInvoice(most, discounts, linesets) ==
  \E d \in discounts :
    \E lines \in linesets :
      /\ Len(invoices) < most
      /\ \A p \in Requests : creating[p].pc # "numbered"
      /\ Len(iitems) + Len(lines) <= MaxItems
      /\ InvRows + 1 + Len(lines) <= MaxInvRows
      /\ IF \A k \in DOMAIN lines : InvoiceItemFormValid(lines[k])
         THEN LET inv == Len(invoices) + 1
                  \* the INSERT: save() recomputes nothing while pk is unset
                  row == [status |-> "DRAFT", total_amount |-> 0,
                          discount |-> d, deleted |-> FALSE]
                  st == SaveNewLines(inv, lines, 1,
                          [items |-> iitems, row |-> row, tx |-> txns])
              IN /\ invoices' = Append(invoices, st.row)
                 /\ invoice_number' =
                      Append(invoice_number,
                             next_invoice_number(invoice_number, today))
                 /\ iitems' = st.items
                 /\ txns' = st.tx
         ELSE UNCHANGED <<invoices, invoice_number, iitems, txns>>
      /\ UNCHANGED <<po_status, poi_qty, poi_rec, stock, spay, returns, repl,
                     srefunds, credits, capps, ipay, irefunds, trav, applying,
                     today, creating>>

create_invoice_view ==
  CreateInvoice(MaxInvoices, InvDiscounts,
                {<<>>} \cup {<<ln>> : ln \in LineInputs})

\* an invoice created with no lines and no discount
create_lineless_invoice == CreateInvoice(MaxNumbered, {0}, {<<>>})

InCreation == Cardinality({p \in Requests : creating[p].pc = "numbered"})

\* Invoice.save() of a new invoice, up to the number it gives itself: the
\* select_for_update() query returns the last row as the store holds it now
\* (SQLite takes no row lock, and a lock waited for returns the row that was
\* locked, not one inserted meanwhile)
save_new_invoice_number(p) ==
  /\ creating[p].pc # "numbered"
  /\ Len(invoices) + InCreation < MaxNumbered
  /\ InvRows + InCreation < MaxInvRows
  /\ creating' = [creating EXCEPT ![p] =
        [pc |-> "numbered",
         number |-> next_invoice_number(invoice_number, today)]]
  /\ UNCHANGED <<po_status, poi_qty, poi_rec, stock, spay, returns, repl,
                 srefunds, credits, capps, txns, invoicing, trav, applying,
                 invoice_number, today>>

\* super().save(): the INSERT, refused by unique=True when the number is taken
save_new_invoice_insert(p) ==
  /\ creating[p].pc = "numbered"
  /\ IF \E k \in DOMAIN invoice_number : invoice_number[k] = creating[p].number
     THEN /\ creating' = [creating EXCEPT ![p].pc = "failed"]
          /\ UNCHANGED <<invoices, invoice_number>>
     ELSE /\ invoices' = Append(invoices, [status |-> "DRAFT", total_amount |-> 0,
                                           discount |-> 0, deleted |-> FALSE])
          /\ invoice_number' = Append(invoice_number, creating[p].number)
          /\ creating' = [creating EXCEPT ![p] = SaveIdle]
  /\ UNCHANGED <<po_status, poi_qty, poi_rec, stock, spay, returns, repl,
                 srefunds, credits, capps, txns, iitems, ipay, irefunds, trav,
                 applying, today>>

save_invoice_number == \E p \in Requests : save_new_invoice_number(p)

save_invoice_insert == \E p \in Requests : save_new_invoice_insert(p)

\* what one submission of the edit page changes: the invoice's discount, or
\* one of its lines (added, changed or marked for deletion)
Changes(inv) ==
  {[op |-> "none", item |-> NoRow, line |-> NoLine, discount |-> d] :
          d \in InvDiscounts}
  \cup {[op |-> "add", item |-> NoRow, line |-> ln,
         discount |-> invoices[inv].discount] : ln \in LineInputs}
  \cup {[op |-> "update", item |-> k, line |-> ln,
         discount |-> invoices[inv].discount] :
          k \in LiveItems(iitems, inv), ln \in LineInputs}
  \cup {[op |-> "delete", item |-> k, line |-> NoLine,
         discount |-> invoices[inv].discount] :
          k \in LiveItems(iitems, inv)}

\* item_formset.is_valid(): every form not marked for deletion is validated,
\* the untouched lines being posted back as the page showed them
EditFormsetValid(inv, ch) ==
  /\ ch.op \in {"add", "update"} => InvoiceItemFormValid(ch.line)
  /\ (\E k \in LiveItems(iitems, inv) \ {ch.item} : iitems[k].stock_item # NoRow)
       => variant_stock_available(stock, txns, returns) > 0

edit_invoice_view ==
  \E inv \in {i \in DOMAIN invoices : ~invoices[i].deleted} :
    \E ch \in Changes(inv) :
      /\ ~invoices[inv].deleted
      /\ ch.op = "add" => Len(iitems) < MaxItems /\ InvRows < MaxInvRows
      /\ IF EditFormsetValid(inv, ch)
         THEN LET \* invoice_form.save()
                  row1 == InvoiceSave(iitems, ipay, irefunds,
                                      [invoices[inv] EXCEPT !.discount = ch.discount],
                                      inv)
              IN CASE ch.op = "none" ->
                        /\ invoices' = [invoices EXCEPT ![inv] = row1]
                        /\ UNCHANGED <<iitems, txns>>
                   [] ch.op = "add" ->
                        LET st == SaveNewLines(inv, <<ch.line>>, 1,
                                    [items |-> iitems, row |-> row1, tx |-> txns])
                        IN /\ invoices' = [invoices EXCEPT ![inv] = st.row]
                           /\ iitems' = st.items
                           /\ txns' = st.tx
                   [] ch.op = "update" ->
                        LET k == ch.item
                            \* pre_save: cache_previous_invoice_item_state
                            previous == [item |-> k,
                                         stock_item |-> iitems[k].stock_item,
                                         quantity |-> iitems[k].quantity]
                            its2 == [iitems EXCEPT ![k] = ItemRow(inv, ch.line)]
                        IN /\ iitems' = its2
                           /\ invoices' = [invoices EXCEPT ![inv] =
                                InvoiceSave(its2, ipay, irefunds, row1, inv)]
                           /\ txns' = update_stock_for_invoice_item(
                                        txns, k, previous, ch.line, FALSE)
                   [] ch.op = "delete" ->
                        LET k == ch.item
                            its2 == [iitems EXCEPT ![k] = DeletedItem]
                            \* on_delete=CASCADE of the transaction's invoice_item
                            cascaded == {t \in txns : t.invoice_item # k}
                        IN /\ iitems' = its2
                           /\ invoices' = [invoices EXCEPT ![inv] =
                                InvoiceSave(its2, ipay, irefunds, row1, inv)]
                           /\ txns' = update_stock_for_invoice_item(
                                        cascaded, k, NoPrevious, iitems[k], TRUE)
         ELSE UNCHANGED <<invoices, iitems, txns>>
      /\ UNCHANGED <<po_status, poi_qty, poi_rec, stock, spay, returns, repl,
                     srefunds, credits, capps, ipay, irefunds, trav, applying,
                  numbering>>

PaymentAmountValid_any_positive(balance, amount) == amount > 0

\* InvoicePaymentForm.clean_amount against the invoice's balance_due
PaymentAmountValid(balance, amount) == amount > 0 /\ amount <= balance

\* InvoicePaymentForm.clean_amount, then on_payment_change
add_invoice_payment_view ==
  \E inv \in DOMAIN invoices : \E amount \in Amounts :
    /\ ~invoices[inv].deleted
    /\ Len(ipay) < MaxIPays
    /\ InvRows < MaxInvRows
    /\ IF PaymentAmountValid(invoice_balance_due(iitems, ipay, irefunds,
                                                 invoices[inv], inv), amount)
       THEN /\ ipay' = Append(ipay, [invoice |-> inv, amount |-> amount])
            /\ invoices' = [invoices EXCEPT ![inv] =
                 InvoiceSave(iitems, ipay', irefunds, invoices[inv], inv)]
       ELSE UNCHANGED <<ipay, invoices>>
    /\ UNCHANGED <<po_status, poi_qty, poi_rec, stock, spay, returns, repl,
                   srefunds, credits, capps, txns, iitems, irefunds, trav, applying,
                  numbering>>

InvoiceRefundValid_any_overpaid(balance, amount) == balance < 0 /\ amount > 0

\* record_refund_view's overpaid check and RefundForm.clean_amount
InvoiceRefundValid(balance, amount) ==
  balance < 0 /\ amount > 0 /\ amount <= -balance

\* the view's overpaid check, RefundForm.clean_amount, then on_refund_change
record_refund_view ==
  \E inv \in DOMAIN invoices : \E amount \in Amounts :
    /\ ~invoices[inv].deleted
    /\ Len(irefunds) < MaxIRefunds
    /\ InvRows < MaxInvRows
    /\ LET balance == invoice_balance_due(iitems, ipay, irefunds,
                                          invoices[inv], inv)
       IN IF InvoiceRefundValid(balance, amount)
          THEN /\ irefunds' = Append(irefunds, [invoice |-> inv, amount |-> amount])
               /\ invoices' = [invoices EXCEPT ![inv] =
                    InvoiceSave(iitems, ipay, irefunds', invoices[inv], inv)]
          ELSE UNCHANGED <<irefunds, invoices>>
    /\ UNCHANGED <<po_status, poi_qty, poi_rec, stock, spay, returns, repl,
                   srefunds, credits, capps, txns, iitems, ipay, trav, applying,
                  numbering>>

delete_invoice_keeping_transactions ==
  \E inv \in DOMAIN invoices :
    /\ ~invoices[inv].deleted
    /\ iitems' = [k \in DOMAIN iitems |->
                    IF iitems[k].invoice = inv THEN DeletedItem ELSE iitems[k]]
    /\ ipay' = SelectSeq(ipay, LAMBDA p : p.invoice # inv)
    /\ irefunds' = SelectSeq(irefunds, LAMBDA p : p.invoice # inv)
    /\ invoices' = [invoices EXCEPT ![inv] = DeletedInvoice]
    /\ invoice_number' = [invoice_number EXCEPT ![inv] = NoNumber]
    /\ UNCHANGED <<po_status, poi_qty, poi_rec, stock, spay, returns, repl,
                   srefunds, credits, capps, txns, trav, applying, today,
                   creating>>

\* invoice.delete(): the cascade removes lines, their transactions, payments
\* and refunds, then the invoice row
delete_invoice_view ==
  \E inv \in DOMAIN invoices :
    /\ ~invoices[inv].deleted
    /\ iitems' = [k \in DOMAIN iitems |->
                    IF iitems[k].invoice = inv THEN DeletedItem ELSE iitems[k]]
    /\ txns' = {t \in txns : iitems[t.invoice_item].invoice # inv}
    /\ ipay' = SelectSeq(ipay, LAMBDA p : p.invoice # inv)
    /\ irefunds' = SelectSeq(irefunds, LAMBDA p : p.invoice # inv)
    /\ invoices' = [invoices EXCEPT ![inv] = DeletedInvoice]
    /\ invoice_number' = [invoice_number EXCEPT ![inv] = NoNumber]
    /\ UNCHANGED <<po_status, poi_qty, poi_rec, stock, spay, returns, repl,
                   srefunds, credits, capps, trav, applying, today, creating>>

\* InvoiceAdmin: status set to CANCELLED on the change form, then save()
admin_cancel_invoice ==
  \E inv \in DOMAIN invoices :
    /\ ~invoices[inv].deleted
    /\ invoices[inv].status # "CANCELLED"
    /\ invoices' = [invoices EXCEPT ![inv] =
         InvoiceSave(iitems, ipay, irefunds,
                     [invoices[inv] EXCEPT !.status = "CANCELLED"], inv)]
    /\ UNCHANGED <<po_status, poi_qty, poi_rec, stock, spay, returns, repl,
                   srefunds, credits, capps, txns, iitems, ipay, irefunds, trav, applying,
                  numbering>>

\* ------------------------------ PurchaseOrder._get_all_related_returns()
TravIdle == [pc |-> "idle", po |-> NoRow, all_returns |-> <<>>,
             returns_to_check |-> {}, processed_return_pks |-> {}]

\* Meta.ordering = ['-return_date']: the newest row first
RECURSIVE NewestFirst(_)
NewestFirst(S) ==
  IF S = {} THEN <<>>
  ELSE LET m == CHOOSE y \in S : \A z \in S : y >= z
       IN <<m>> \o NewestFirst(S \ {m})

direct_returns(po) == {r \in DOMAIN returns : returns[r].po = po}

replacements_of(to_check) ==
  {k \in DOMAIN repl : repl[k].purchase_return \in to_check}

replacement_stock_items(reps) ==
  {repl[k].created_stock_item : k \in reps} \ {NoRow}

nested_returns_linked(stock_items, processed) ==
  {r \in DOMAIN returns :
     returns[r].stock_item \in stock_items /\ returns[r].po # NoRow} \ processed

nested_returns(stock_items, processed) ==
  {r \in DOMAIN returns : returns[r].stock_item \in stock_items} \ processed

returns_to_check_kept(to_check, newly_found) == to_check \cup newly_found

\* returns_to_check = newly_found_returns
returns_to_check_next(to_check, newly_found) == newly_found

\* purchase_order_detail_view calls the method: the lines before the loop
get_all_related_returns_begin ==
  \E po \in POs :
    /\ trav.pc = "idle"
    /\ LET direct == direct_returns(po)
       IN trav' = [pc |-> "loop", po |-> po,
                   all_returns |-> NewestFirst(direct),
                   returns_to_check |-> direct,
                   processed_return_pks |-> direct]
    /\ UNCHANGED <<po_status, poi_qty, poi_rec, stock, spay, returns, repl,
                   srefunds, credits, capps, txns, invoicing, applying,
                  numbering>>

\* one test of the while condition and, if it holds, one pass of the body
get_all_related_returns_loop ==
  /\ trav.pc = "loop"
  /\ LET replacements == replacements_of(trav.returns_to_check)
         stock_items == replacement_stock_items(replacements)
         nested == nested_returns(stock_items, trav.processed_return_pks)
         to_check == returns_to_check_next(trav.returns_to_check, nested)
     IN IF trav.returns_to_check = {} \/ replacements = {} \/ stock_items = {}
        THEN trav' = [trav EXCEPT !.pc = "done"]
        ELSE trav' = [trav EXCEPT
                        !.all_returns = @ \o NewestFirst(nested),
                        !.processed_return_pks = @ \cup nested,
                        !.returns_to_check = to_check,
                        !.pc = IF to_check = {} THEN "done" ELSE "loop"]
  /\ UNCHANGED <<po_status, poi_qty, poi_rec, stock, spay, returns, repl,
                 srefunds, credits, capps, txns, invoicing, applying,
                  numbering>>

\* return all_returns: the view renders the page and the locals are gone
get_all_related_returns_return ==
  /\ trav.pc = "done"
  /\ trav' = TravIdle
  /\ UNCHANGED <<po_status, poi_qty, poi_rec, stock, spay, returns, repl,
                 srefunds, credits, capps, txns, invoicing, applying,
                  numbering>>

\* -------------------------------------------------------------------- Init
Init ==
  /\ po_status = [p \in POs |-> "PENDING"]
  /\ poi_qty = <<2, 1, 2>>
  /\ poi_rec = <<0, 0, 0>>
  /\ stock = <<>>
  /\ spay = <<>>
  /\ returns = <<>>
  /\ repl = <<>>
  /\ srefunds = <<>>
  /\ credits = <<>>
  /\ capps = <<>>
  /\ txns = {}
  /\ invoices = <<>>
  /\ iitems = <<>>
  /\ ipay = <<>>
  /\ irefunds = <<>>
  /\ trav = TravIdle
  /\ applying = [p \in Requests |-> ApplyIdle]
  /\ invoice_number = <<>>
  /\ today = 1
  /\ creating = [p \in Requests |-> SaveIdle]

\* ------------------------------------------------ purchase order life cycle
NextPO ==
  \/ receive_purchase_order_view
  \/ cancel_purchase_order_view
  \/ edit_purchase_order_view
  \/ add_supplier_payment_view

SpecPO == Init /\ [][NextPO]_vars

\* C5: PurchaseOrder.status only moves forward along PENDING ->
\* {PARTIALLY_RECEIVED -> COMPLETED, CANCELLED}: CANCELLED is entered only from
\* PENDING and never left, COMPLETED is never left, and PARTIALLY_RECEIVED only
\* moves on to COMPLETED.
C5_StatusForwardOnly ==
  [][\A p \in POs :
       /\ po_status[p] = "CANCELLED" => po_status'[p] = "CANCELLED"
       /\ po_status[p] = "COMPLETED" => po_status'[p] = "COMPLETED"
       /\ po_status[p] = "PARTIALLY_RECEIVED"
            => po_status'[p] \in {"PARTIALLY_RECEIVED", "COMPLETED"}
       /\ (po_status'[p] = "CANCELLED" /\ po_status[p] # "CANCELLED")
            => po_status[p] = "PENDING"]_vars

\* C6: whatever purchase_order_item_id the submitted lines carry, no
\* PurchaseOrderItem is ever received beyond its ordered quantity.
C6_ReceivedWithinOrdered ==
  \A i \in POItems : poi_rec[i] <= poi_qty[i]

\* --------------------------------------------- returns, refunds, replacements
NextReturns ==
  \/ receive_listed_item
  \/ create_return_view
  \/ add_supplier_refund_view
  \/ create_general_refund_view
  \/ receive_replacement_view

SpecReturns == Init /\ [][NextReturns]_vars

NextRefundCredit ==
  \/ receive_listed_item
  \/ edit_stock_item_links
  \/ create_return_view
  \/ add_supplier_refund_view
  \/ create_general_refund_view

SpecRefundCredit == Init /\ [][NextRefundCredit]_vars

\* C7: every SupplierRefund, linked to a purchase order or general, has exactly
\* one SupplierCredit whose source_refund is that refund, issued to the refund's
\* supplier, with initial_amount and balance equal to the refund amount.
C7_EveryRefundHasCredit ==
  \A k \in DOMAIN srefunds :
    /\ Cardinality({c \in DOMAIN credits : credits[c].source_refund = k}) = 1
    /\ \A c \in DOMAIN credits :
         credits[c].source_refund = k =>
           /\ credits[c].initial_amount = srefunds[k].amount
           /\ credits[c].balance = srefunds[k].amount
           /\ credits[c].supplier =
                IF srefunds[k].po # NoRow THEN PoSupplier[srefunds[k].po]
                ELSE stock[returns[srefunds[k].purchase_return].stock_item].supplier

\* ------------------------------------------------- applying credit notes
NextCredit ==
  \/ receive_listed_item
  \/ create_return_view
  \/ add_supplier_refund_view
  \/ apply_supplier_credit_view

SpecCredit == Init /\ [][NextCredit]_vars

\* C3: a SupplierCredit's balance is its initial amount less everything applied
\* from it, and it is marked fully used exactly when nothing is left.
C3_CreditBalance ==
  \A c \in DOMAIN credits :
    /\ credits[c].balance =
         credits[c].initial_amount
         - SumF([k \in DOMAIN capps |-> capps[k].amount_applied],
                {k \in DOMAIN capps : capps[k].credit = c})
    /\ credits[c].is_fully_used <=> credits[c].balance <= 0

\* ------------------------------------------------------ patient invoices
NextInvoice ==
  \/ create_invoice_view
  \/ edit_invoice_view
  \/ add_invoice_payment_view
  \/ record_refund_view
  \/ delete_invoice_view
  \/ admin_cancel_invoice

SpecInvoice == Init /\ [][NextInvoice]_vars

\* ------------------------------------------------- batches sold and returned
NextStockSales ==
  \/ receive_undiscounted_item
  \/ create_return_view
  \/ create_invoice_view
  \/ edit_invoice_view
  \/ delete_invoice_view

SpecStockSales == Init /\ [][NextStockSales]_vars

\* C1: for every StockItem, the quantity sold through invoice lines plus the
\* quantity returned never exceeds the batch's quantity, so quantity_available
\* is never negative.
C1_QuantityConserved ==
  \A s \in DOMAIN stock :
    quantity_sold(txns, s) + quantity_returned(returns, s) <= stock[s].quantity

\* C4: an invoice that is not CANCELLED and has had a line, payment or refund
\* written (its status has left DRAFT) stores the status derived from its
\* current balance_due and amount_paid: PAID iff balance_due <= 0, PARTIAL iff
\* balance_due > 0 and amount_paid > 0, otherwise PENDING; an invoice still in
\* DRAFT has no line, payment or refund.
C4_StatusDerived ==
  \A inv \in DOMAIN invoices :
    ~invoices[inv].deleted =>
      LET balance == invoice_balance_due(iitems, ipay, irefunds,
                                         invoices[inv], inv)
          paid == invoice_amount_paid(ipay, inv)
          status == invoices[inv].status
      IN /\ status = "PAID" => balance <= 0
         /\ status = "PARTIAL" => balance > 0 /\ paid > 0
         /\ status = "PENDING" => balance > 0 /\ paid <= 0
         /\ status = "DRAFT" =>
              /\ LiveItems(iitems, inv) = {}
              /\ paid = 0
              /\ total_refunded(irefunds, inv) = 0
         /\ status \in {"PAID", "PARTIAL", "PENDING", "DRAFT", "CANCELLED"}

\* an overpaid invoice brought back to a zero balance by a refund
C4_Witness ==
  \E inv \in DOMAIN invoices :
    /\ ~invoices[inv].deleted
    /\ invoices[inv].status = "PAID"
    /\ total_refunded(irefunds, inv) > 0
    /\ invoice_amount_paid(ipay, inv) > 0
    /\ invoice_balance_due(iitems, ipay, irefunds, invoices[inv], inv) = 0

\* ------------------------------------------- invoice lines and their batches
NextLines ==
  \/ receive_undiscounted_item
  \/ create_invoice_view
  \/ edit_invoice_view
  \/ delete_invoice_view

SpecLines == Init /\ [][NextLines]_vars

\* C8: every live InvoiceItem that references a stock_item has exactly one
\* StockItemTransaction, with that stock_item and that quantity, and every
\* StockItemTransaction belongs to a live InvoiceItem that references a
\* stock_item.
C8_TransactionPerLine ==
  /\ \A k \in DOMAIN iitems :
       (~iitems[k].deleted /\ iitems[k].stock_item # NoRow) =>
         /\ Cardinality({t \in txns : t.invoice_item = k}) = 1
         /\ \A t \in txns : t.invoice_item = k =>
              /\ t.stock_item = iitems[k].stock_item
              /\ t.quantity = iitems[k].quantity
  /\ \A t \in txns :
       /\ t.invoice_item \in DOMAIN iitems
       /\ ~iitems[t.invoice_item].deleted
       /\ iitems[t.invoice_item].stock_item # NoRow

\* a line that consumes two units of a batch, next to a line that holds no batch
C8_Witness ==
  \E k, n \in DOMAIN iitems :
    /\ ~iitems[k].deleted /\ iitems[k].stock_item # NoRow
    /\ iitems[k].quantity = 2
    /\ \E t \in txns : t.invoice_item = k /\ t.quantity = 2
    /\ ~iitems[n].deleted /\ iitems[n].stock_item = NoRow

\* ---------------------------------------------------- nested return lookup
NextTraversal ==
  \/ receive_listed_item
  \/ create_return_view
  \/ receive_replacement_view
  \/ get_all_related_returns_begin
  \/ get_all_related_returns_loop
  \/ get_all_related_returns_return

\* a started call keeps running
SpecTraversal ==
  Init /\ [][NextTraversal]_vars /\ WF_vars(get_all_related_returns_loop)

\* returns on a batch that a replacement for one of the returns in S created
ReturnsOnReplacements(S) ==
  {r \in DOMAIN returns :
     \E k \in DOMAIN repl : /\ repl[k].purchase_return \in S
                            /\ repl[k].created_stock_item = returns[r].stock_item}

RECURSIVE Reachable(_)
Reachable(S) ==
  IF ReturnsOnReplacements(S) \subseteq S THEN S
  ELSE Reachable(S \cup ReturnsOnReplacements(S))

Result == {trav.all_returns[i] : i \in DOMAIN trav.all_returns}

\* C9: a finished _get_all_related_returns() holds exactly the returns reachable
\* from the order's direct returns through return -> ReplacementItem ->
\* created_stock_item -> return on that batch, at any depth.
C9_ResultIsReachableSet ==
  trav.pc = "done" =>
    Result = Reachable({r \in DOMAIN returns : returns[r].po = trav.po})

\* the result holds a direct return and a return on its replacement batch
C9_Witness ==
  /\ trav.pc = "done"
  /\ \E r1, r2 \in Result :
       /\ returns[r1].po = trav.po
       /\ returns[r2].po = NoRow
       /\ \E k \in DOMAIN repl : /\ repl[k].purchase_return = r1
                                 /\ repl[k].created_stock_item = returns[r2].stock_item

\* C10: a started traversal finishes, and no return is ever twice in its result.
C10_TerminatesWithoutRepeats ==
  /\ [](\A i, j \in DOMAIN trav.all_returns :
          trav.all_returns[i] = trav.all_returns[j] => i = j)
  /\ (trav.pc = "loop") ~> (trav.pc = "done")

\* a traversal that went round the loop for a nested return and then stopped
C10_Witness ==
  /\ trav.pc = "done"
  /\ Len(trav.all_returns) >= 2
  /\ \E r \in trav.returns_to_check : returns[r].po = NoRow

\* C11 as stated: grand_total covers the batches received for the order's items
\* and the replacement batches created, at any depth, for returns of them.
C11_GrandTotalOverChain ==
  \A po \in POs : grand_total(stock, po) = grand_total_over_chain(stock, po)

\* C11: grand_total is the sum of quantity x cost_price over the batches whose
\* purchase_order_item is one of the order's items, item by item; a replacement
\* batch has no purchase_order_item and adds nothing to any order's total.
C11_GrandTotalOverReceived ==
  /\ \A po \in POs :
       grand_total(stock, po) =
         SumF([i \in POItems |->
                 SumF([k \in DOMAIN stock |-> stock[k].quantity * stock[k].cost_price],
                      {k \in DOMAIN stock : stock[k].poi = i})],
              ItemsOf(po))
  /\ \A j \in DOMAIN repl : stock[repl[j].created_stock_item].poi = NoRow

\* an order with a received batch of some value and a replacement batch of some
\* value in its chain
C11_Witness ==
  \E po \in POs :
    /\ grand_total(stock, po) > 0
    /\ grand_total_over_chain(stock, po) > grand_total(stock, po)

\* position of a PurchaseReturn status along PENDING -> PARTIALLY_PROCESSED ->
\* FULLY_PROCESSED
ReturnRank(status) ==
  CASE status = "PENDING" -> 0
    [] status = "PARTIALLY_PROCESSED" -> 1
    [] status = "FULLY_PROCESSED" -> 2

\* C12: over refunds and replacements the status of a PurchaseReturn never
\* moves to an earlier state of PENDING -> PARTIALLY_PROCESSED -> FULLY_PROCESSED.
C12_ReturnStatusMonotonic ==
  [][\A r \in DOMAIN returns :
       ReturnRank(returns'[r].status) >= ReturnRank(returns[r].status)]_vars

\* a return settled in two steps, so that it passed through PARTIALLY_PROCESSED
C12_Witness ==
  \E r \in DOMAIN returns :
    /\ returns[r].status = "FULLY_PROCESSED"
    /\ Cardinality({k \in DOMAIN srefunds : srefunds[k].purchase_return = r})
       + Cardinality({k \in DOMAIN repl : repl[k].purchase_return = r}) >= 2

\* C13: every step that saves a SupplierRefund or a ReplacementItem of a return
\* leaves the return's stored status FULLY_PROCESSED if value_pending_action is
\* below one paise, else PARTIALLY_PROCESSED if anything was replaced or
\* refunded, else PENDING; a refund of exactly the value that was pending
\* leaves it FULLY_PROCESSED.
C13_StatusAfterSave ==
  [][\A r \in DOMAIN returns :
       (\/ amount_refunded(srefunds', r) # amount_refunded(srefunds, r)
        \/ quantity_replaced(repl', r) # quantity_replaced(repl, r))
       => /\ returns'[r].status =
               IF value_pending_action(stock', returns', repl', srefunds', r) < 1
               THEN "FULLY_PROCESSED"
               ELSE IF \/ quantity_replaced(repl', r) > 0
                       \/ amount_refunded(srefunds', r) > 0
               THEN "PARTIALLY_PROCESSED"
               ELSE "PENDING"
          /\ (amount_refunded(srefunds', r) - amount_refunded(srefunds, r)
                 = value_pending_action(stock, returns, repl, srefunds, r))
               => returns'[r].status = "FULLY_PROCESSED"]_vars

\* a return of some value settled by one refund of exactly that value
C13_Witness ==
  \E r \in DOMAIN returns :
    /\ returns[r].status = "FULLY_PROCESSED"
    /\ total_value(stock, returns, r) > 0
    /\ quantity_replaced(repl, r) = 0
    /\ \E k \in DOMAIN srefunds :
         /\ srefunds[k].purchase_return = r
         /\ srefunds[k].amount = total_value(stock, returns, r)

\* C14: a step of apply-credit either records nothing and leaves every credit's
\* balance and is_fully_used and every order's amount_credited as they were, or
\* records exactly one CreditApplication whose amount is positive, within the
\* credit's balance and within the order's balance_due, and lowers that
\* credit's balance by exactly that amount.
C14_ApplyCreditContract ==
  [][IF capps' = capps
     THEN \A c \in DOMAIN credits : credits'[c] = credits[c]
     ELSE /\ Len(capps') = Len(capps) + 1
          /\ SubSeq(capps', 1, Len(capps)) = capps
          /\ LET a == capps'[Len(capps')]
             IN /\ a.amount_applied > 0
                /\ a.amount_applied <= credits[a.credit].balance
                /\ a.amount_applied
                     <= balance_due(stock, spay, capps, a.applied_to_po)
                /\ credits'[a.credit].balance
                     = credits[a.credit].balance - a.amount_applied
                /\ \A c \in DOMAIN credits \ {a.credit} :
                     credits'[c] = credits[c]]_vars

\* ------------------------------------------------ receipt of several lines
NextReceive ==
  \/ receive_all_listed_items
  \/ edit_purchase_order_view
  \/ cancel_purchase_order_view
  \/ add_supplier_payment_view

SpecReceive == Init /\ [][NextReceive]_vars

\* C15: a receive submission that fills in every listed item changes nothing
\* at all, or it creates one StockItem for every one of its lines, each within
\* the item's remaining quantity, and adds each line's quantity to its item's
\* quantity_received: no step receives some of the lines and not the others,
\* and no batch is created without its counter moving.
C15_ReceiveAllOrNothing ==
  [][(stock' # stock \/ poi_rec' # poi_rec) =>
       \E po \in POs :
         LET items == items_to_receive(po) IN
         /\ Len(stock') = Len(stock) + Len(items)
         /\ SubSeq(stock', 1, Len(stock)) = stock
         /\ \A k \in DOMAIN items :
              LET row == stock'[Len(stock) + k] IN
              /\ row.poi = items[k]
              /\ row.quantity >= 1
              /\ row.quantity <= quantity_remaining(poi_qty, poi_rec, items[k])
              /\ poi_rec'[items[k]] = poi_rec[items[k]] + row.quantity
         /\ \A i \in POItems :
              (\A k \in DOMAIN items : items[k] # i) => poi_rec'[i] = poi_rec[i]
         /\ po_status'[po] = update_status(poi_qty, poi_rec', po)]_vars

\* both items of the first order received in one submission, completing it
C15_Witness ==
  /\ Len(stock) = 2
  /\ stock[1].poi = 1 /\ stock[2].poi = 2
  /\ poi_rec[1] = poi_qty[1] /\ poi_rec[2] = poi_qty[2]
  /\ po_status[1] = "COMPLETED"

\* --------------------------------------- credit notes applied concurrently
NextConcurrentCredit ==
  \/ receive_listed_item
  \/ create_return_view
  \/ add_supplier_refund_view
  \/ apply_credit_check
  \/ apply_credit_create
  \/ apply_credit_abort

SpecConcurrentCredit == Init /\ [][NextConcurrentCredit]_vars

\* C16: however two apply-credit requests interleave, every credit's balance is
\* its initial amount less the amounts of the recorded applications and is
\* never negative, and no order is credited beyond what it owes.
C16_ConcurrentApplyConsistent ==
  /\ \A c \in DOMAIN credits :
       /\ credits[c].balance =
            credits[c].initial_amount
            - SumF([k \in DOMAIN capps |-> capps[k].amount_applied],
                   {k \in DOMAIN capps : capps[k].credit = c})
       /\ credits[c].balance >= 0
  /\ \A po \in POs :
       amount_credited(capps, po) <= grand_total(stock, po) - amount_paid(spay, po)

\* ------------------------------------------- invoices created at the same time
NextConcurrentInvoices ==
  \/ save_invoice_number
  \/ save_invoice_insert
  \/ delete_invoice_view
  \/ next_day

SpecConcurrentInvoices == Init /\ [][NextConcurrentInvoices]_vars

\* C17: invoices created at the same time never share an invoice_number, and
\* every creation succeeds, also when no invoice of the day exists yet.
C17_ConcurrentNumbersDistinct ==
  /\ \A i, j \in DOMAIN invoice_number :
       (i # j /\ ~invoices[i].deleted /\ ~invoices[j].deleted)
         => invoice_number[i] # invoice_number[j]
  /\ \A p \in Requests : creating[p].pc # "failed"

\* ------------------------------------------------------- invoice numbering
NextNumbering ==
  \/ create_lineless_invoice
  \/ delete_invoice_view
  \/ next_day

SpecNumbering == Init /\ [][NextNumbering]_vars

\* the number after the prefix, read as the numeral it prints
RECURSIVE Numeral(_)
Numeral(ds) ==
  IF ds = <<>> THEN 0 ELSE ds[Len(ds)] + 10 * Numeral(SubSeq(ds, 1, Len(ds) - 1))

\* C18: an invoice created after the others gets the prefix of the day it is
\* created on and, in four digits, one more than the highest number existing
\* under that prefix, which is 0001 when the day has no invoice yet.
C18_SequentialNumbers ==
  [][Len(invoice_number') > Len(invoice_number) =>
       LET new == invoice_number'[Len(invoice_number')]
           same_day == {k \in DOMAIN invoice_number :
                          invoice_number[k].day = today}
       IN /\ Len(invoice_number') = Len(invoice_number) + 1
          /\ new.day = today
          /\ Len(new.digits) = NumberWidth
          /\ \A k \in same_day :
               Numeral(new.digits) > Numeral(invoice_number[k].digits)
          /\ \/ same_day = {} /\ Numeral(new.digits) = 1
             \/ \E k \in same_day :
                  Numeral(new.digits) = Numeral(invoice_number[k].digits) + 1]_vars

\* 0001 and 0002 on the first day, then 0001 on the next
C18_Witness ==
  /\ Len(invoice_number) = 3
  /\ invoice_number[1] = [day |-> 1, digits |-> <<0, 0, 0, 1>>]
  /\ invoice_number[2] = [day |-> 1, digits |-> <<0, 0, 0, 2>>]
  /\ invoice_number[3] = [day |-> 2, digits |-> <<0, 0, 0, 1>>]

\* C19: a step that creates an InvoiceItem of quantity q on a batch lowers the
\* batch's quantity_available by exactly q, and a step that deletes the item
\* raises it by exactly the item's quantity, which puts it back where it was.
C19_ConsumeDeleteRoundTrip ==
  [][\A s \in DOMAIN stock :
       LET created == {k \in DOMAIN iitems' \ DOMAIN iitems :
                         iitems'[k].stock_item = s}
           removed == {k \in DOMAIN iitems :
                         /\ ~iitems[k].deleted /\ iitems'[k].deleted
                         /\ iitems[k].stock_item = s}
           changed == {k \in DOMAIN iitems :
                         /\ ~iitems[k].deleted /\ ~iitems'[k].deleted
                         /\ iitems'[k] # iitems[k]}
       IN changed = {} =>
            quantity_available(stock', txns', returns', s)
              = quantity_available(stock, txns, returns, s)
                - SumF([k \in DOMAIN iitems' |-> iitems'[k].quantity], created)
                + SumF([k \in DOMAIN iitems |-> iitems[k].quantity], removed)]_vars

\* a batch back at its full quantity after a line that consumed from it was
\* created and deleted, with the invoice still there
C19_Witness ==
  \E s \in DOMAIN stock : \E k \in DOMAIN iitems : \E inv \in DOMAIN invoices :
    /\ iitems[k].deleted
    /\ ~invoices[inv].deleted
    /\ \A n \in DOMAIN iitems : iitems[n].deleted
    /\ Len(stock) = 1
    /\ stock[s].quantity = 2
    /\ quantity_available(stock, txns, returns, s) = 2

NextStockEdit ==
  \/ receive_undiscounted_item
  \/ create_return_view
  \/ edit_stock_item_view

SpecStockEdit == Init /\ [][NextStockEdit]_vars

\* C21: no operation changes the quantity or the cost_price of a StockItem
\* that already exists.
C21_StockItemImmutable ==
  [][\A s \in DOMAIN stock :
       /\ stock'[s].quantity = stock[s].quantity
       /\ stock'[s].cost_price = stock[s].cost_price]_vars

\* -------------------------------------------------- cancelled invoices
\* C22: a CANCELLED invoice stays CANCELLED through every later save(),
\* whichever line, payment or refund was written or deleted; only its
\* total_amount follows the lines.
C22_CancelledStays ==
  [][\A inv \in DOMAIN invoices :
       (invoices[inv].status = "CANCELLED" /\ ~invoices'[inv].deleted)
         => /\ invoices'[inv].status = "CANCELLED"
            /\ invoices'[inv].total_amount = calculate_total_amount(iitems', inv)
    ]_vars

\* a cancelled invoice whose lines and payments would give another status
\* and whose total is that of its present lines
C22_Witness ==
  \E inv \in DOMAIN invoices :
    /\ ~invoices[inv].deleted
    /\ invoices[inv].status = "CANCELLED"
    /\ invoices[inv].total_amount > 0
    /\ invoice_amount_paid(ipay, inv) > 0
    /\ InvoiceSave(iitems, ipay, irefunds,
                   [invoices[inv] EXCEPT !.status = "DRAFT"], inv).status = "PAID"

\* ------------------------------------------- invoice refunds and payments
\* C23: a Refund is recorded only for an overpaid invoice (balance_due < 0)
\* and only for 0 < amount <= -balance_due, so the balance after the refund
\* is still <= 0.
C23_RefundWithinOverpayment ==
  [][Len(irefunds') > Len(irefunds) =>
       LET refund == irefunds'[Len(irefunds')]
           inv == refund.invoice
           balance == invoice_balance_due(iitems, ipay, irefunds,
                                          invoices[inv], inv)
       IN /\ Len(irefunds') = Len(irefunds) + 1
          /\ balance < 0
          /\ refund.amount > 0
          /\ refund.amount <= -balance
          /\ invoice_balance_due(iitems', ipay', irefunds',
                                 invoices'[inv], inv) <= 0
          /\ invoice_balance_due(iitems', ipay', irefunds',
                                 invoices'[inv], inv) = balance + refund.amount
    ]_vars

\* an overpayment refunded in part: the invoice is still overpaid
C23_Witness ==
  \E k \in DOMAIN irefunds :
    /\ irefunds[k].amount > 0
    /\ invoice_balance_due(iitems, ipay, irefunds,
                           invoices[irefunds[k].invoice],
                           irefunds[k].invoice) < 0

\* C24: an InvoicePayment is recorded only for 0 < amount <= balance_due,
\* so the balance after the payment is not negative.
C24_PaymentWithinBalance ==
  [][Len(ipay') > Len(ipay) =>
       LET payment == ipay'[Len(ipay')]
           inv == payment.invoice
           balance == invoice_balance_due(iitems, ipay, irefunds,
                                          invoices[inv], inv)
       IN /\ Len(ipay') = Len(ipay) + 1
          /\ payment.amount > 0
          /\ payment.amount <= balance
          /\ invoice_balance_due(iitems', ipay', irefunds',
                                 invoices'[inv], inv) >= 0
          /\ invoice_balance_due(iitems', ipay', irefunds',
                                 invoices'[inv], inv) = balance - payment.amount
    ]_vars

\* an invoice settled exactly by two payments
C24_Witness ==
  \E inv \in DOMAIN invoices :
    /\ ~invoices[inv].deleted
    /\ Cardinality({k \in DOMAIN ipay : ipay[k].invoice = inv}) = 2
    /\ invoices[inv].total_amount > 0
    /\ invoice_balance_due(iitems, ipay, irefunds, invoices[inv], inv) = 0

\* ------------------------------------------------------- creation state
\* C25: once create_invoice_view has completed, whatever lines were
\* submitted, no stored invoice is DRAFT.
C25_NoDraftAfterCreate ==
  \A inv \in DOMAIN invoices :
    ~invoices[inv].deleted => invoices[inv].status # "DRAFT"

\* ------------------------------------------------- cost against the MRP
NextPricedReceive ==
  \/ receive_priced_item
  \/ edit_purchase_order_view
  \/ cancel_purchase_order_view

SpecPricedReceive == Init /\ [][NextPricedReceive]_vars

\* C26: every received batch is stored with base_cost_price <= mrp and
\* cost_price <= mrp.
C26_CostWithinMrp ==
  \A s \in DOMAIN stock :
    stock[s].source = "PURCHASE_ORDER"
      => /\ stock[s].base_cost_price <= stock[s].mrp
         /\ stock[s].cost_price <= stock[s].mrp

\* ------------------------------------------- the counter and the batches
\* receive submissions whose hidden item ids need not be the listed ones
NextSubmissions ==
  \/ receive_purchase_order_view
  \/ cancel_purchase_order_view

SpecSubmissions == Init /\ [][NextSubmissions]_vars

\* C27: for every PurchaseOrderItem, quantity_received is the sum of the
\* quantities of the StockItems whose purchase_order_item it is.
C27_CounterMatchesBatches ==
  \A i \in POItems :
    poi_rec[i] = SumF([s \in DOMAIN stock |-> stock[s].quantity],
                      {s \in DOMAIN stock : stock[s].poi = i})

\* an item received in two batches
C27_Witness ==
  \E i \in POItems :
    /\ Cardinality({s \in DOMAIN stock : stock[s].poi = i}) = 2
    /\ poi_rec[i] = 2

\* ------------------------------------------ what is owed to the supplier
NextSettlement ==
  \/ receive_undiscounted_item
  \/ create_return_view
  \/ add_supplier_refund_view
  \/ add_supplier_payment_view
  \/ apply_supplier_credit_view

SpecSettlement == Init /\ [][NextSettlement]_vars

NextProcessed ==
  \/ receive_listed_item
  \/ create_return_view
  \/ add_supplier_refund_view
  \/ receive_further_replacement

SpecProcessed == Init /\ [][NextProcessed]_vars

\* C29: once a return's stored status is FULLY_PROCESSED, no SupplierRefund
\* and no ReplacementItem is created for it any more.
C29_NothingAfterFullyProcessed ==
  [][\A r \in DOMAIN returns :
       returns[r].status = "FULLY_PROCESSED"
         => /\ {k \in DOMAIN srefunds' : srefunds'[k].purchase_return = r}
                 = {k \in DOMAIN srefunds : srefunds[k].purchase_return = r}
            /\ {k \in DOMAIN repl' : repl'[k].purchase_return = r}
                 = {k \in DOMAIN repl : repl[k].purchase_return = r}
    ]_vars

\* --------------------------------------------------- deleting an invoice
NextDeletion ==
  \/ receive_undiscounted_item
  \/ create_invoice_view
  \/ add_invoice_payment_view
  \/ delete_invoice_view

SpecDeletion == Init /\ [][NextDeletion]_vars

\* C30: the step that deletes an invoice removes the StockItemTransactions of
\* its lines and no others, so every batch gets back exactly what the
\* invoice's lines had taken from it, and no transaction is left for a
\* deleted line.
C30_DeleteInvoiceRestoresStock ==
  [][\A inv \in DOMAIN invoices :
       (~invoices[inv].deleted /\ invoices'[inv].deleted) =>
         LET lines == {k \in DOMAIN iitems :
                         ~iitems[k].deleted /\ iitems[k].invoice = inv}
         IN /\ \A k \in lines : iitems'[k].deleted
            /\ txns' = {t \in txns : t.invoice_item \notin lines}
            /\ \A t \in txns' : ~iitems'[t.invoice_item].deleted
            /\ \A s \in DOMAIN stock :
                 quantity_available(stock', txns', returns', s)
                   = quantity_available(stock, txns, returns, s)
                     + SumF([k \in DOMAIN iitems |-> iitems[k].quantity],
                            {k \in lines : iitems[k].stock_item = s})
    ]_vars

\* an invoice deleted with its line, the only batch back at its full quantity
C30_Witness ==
  \E inv \in DOMAIN invoices : \E k \in DOMAIN iitems :
    /\ invoices[inv].deleted
    /\ iitems[k].deleted
    /\ txns = {}
    /\ Len(stock) = 1
    /\ quantity_available(stock, txns, returns, 1) = stock[1].quantity

====
